---- MODULE Spec2Model ----
(***************************************************************************)
(* hwtop (src/src/main.rs): the sensor classifier get_comp_temps, the      *)
(* table layout functions rows / sized_rows, the capacity bar and percent  *)
(* closures, format_size, the choice of the network interface of the NETW  *)
(* line, and the control flow of main.                                     *)
(*                                                                         *)
(* Strings are sequences of one-character strings, so that replace,        *)
(* strip_prefix, contains, split and the byte-wise ordering of String are  *)
(* computed as the code computes them.                                     *)
(* Temperatures are integers in half-degrees (80 = 40.0, 81 = 40.5), so    *)
(* that the truncation of `as u32` and the rounding of `.round()` differ;  *)
(* None is a sensor whose temperature() is None.                           *)
(***************************************************************************)
EXTENDS Integers, Sequences, FiniteSets, TLC

VARIABLES
    components,   \* Components: sequence of [label, temp]
    comp_temps,   \* value returned by get_comp_temps (main.rs:338)
    cpu_temp,     \* main.rs:339
    core_temps,   \* main.rs:340
    max_core_temp,\* main.rs:383
    extra_temps,  \* the sorted Vec of main.rs:450-451
    cphase,       \* position of the classifier tick
    table,        \* argument of rows()
    rows_out,     \* result of rows(): [panic, text]
    rphase,
    used, total, width,  \* arguments of mem_usage / mem_bar / mhz
    bar_out,      \* result of mem_bar: [cells, col, usage]
    usage_out,    \* percent computed by mem_usage
    mhz_out,      \* percent computed by mhz
    power_out,    \* percent of the GPU power / PCIe ratio
    bphase,
    pc,           \* position of main
    args,         \* command line: subset of {"plain","info","extra"}
    out,          \* the frame buffer `out` of one tick (line tags)
    stdout,       \* what has been printed
    refreshed,    \* sources refreshed in this tick
    failed,       \* the read that returned Err, or "none"
    ticks,        \* completed loop iterations (capped)
    bytes,        \* argument of format_size
    size_out,     \* String returned by format_size
    sphase,
    nets,         \* Networks in iteration order: sequence of [name, total_received, total_transmitted]
    netw_line,    \* interface name written on the NETW line of the frame, or None
    nphase

cvars == <<components, comp_temps, cpu_temp, core_temps, max_core_temp, extra_temps, cphase>>
rvars == <<table, rows_out, rphase>>
bvars == <<used, total, width, bar_out, usage_out, mhz_out, power_out, bphase>>
mvars == <<pc, args, out, stdout, refreshed, failed, ticks>>
svars == <<bytes, size_out, sphase>>
nvars == <<nets, netw_line, nphase>>
vars == <<cvars, rvars, bvars, mvars, svars, nvars>>

----------------------------------------------------------------------------
(* Strings *)

S_Core_ == <<"C", "o", "r", "e", " ">>
S_coretemp_ == <<"c", "o", "r", "e", "t", "e", "m", "p", " ">>
S_core_ == <<"c", "o", "r", "e", " ">>
S_corePackage == <<"c", "o", "r", "e", " ", "P", "a", "c", "k", "a", "g", "e">>
S_nvmeSensor_ == <<"n", "v", "m", "e", " ", "S", "e", "n", "s", "o", "r", " ">>
S_nvmeComposite_ == <<"n", "v", "m", "e", " ", "C", "o", "m", "p", "o", "s", "i", "t", "e", " ">>
S_SSD_ == <<"S", "S", "D", " ">>
S__temp1 == <<" ", "t", "e", "m", "p", "1">>
S_acpitz == <<"a", "c", "p", "i", "t", "z">>
S_Motherboard == <<"M", "o", "t", "h", "e", "r", "b", "o", "a", "r", "d">>
S_spd5118 == <<"s", "p", "d", "5", "1", "1", "8">>
S_RAM == <<"R", "A", "M">>
S_wifi == <<"w", "i", "f", "i">>
S_WiFi == <<"W", "i", "-", "F", "i">>
S_CPU == <<"C", "P", "U">>
S_Core == <<"C", "o", "r", "e">>
S_Composite == <<"C", "o", "m", "p", "o", "s", "i", "t", "e">>
S_CompositeVariant == <<"C", "o", "m", "p", "o", "s", "i", "t", "e", " ", "V", "a", "r", "i", "a", "n", "t">>
S_0 == <<"0">>
S_1 == <<"1">>
S_Packageid0 == <<"P", "a", "c", "k", "a", "g", "e", " ", "i", "d", " ", "0">>
S_X == <<"X">>
S_Xtemp2 == <<"X", " ", "t", "e", "m", "p", "2">>

\* Sensor labels as sysinfo reports them on Linux, and the bare labels of
\* the end-to-end scenario.
L_coretempCore0 == <<"c", "o", "r", "e", "t", "e", "m", "p", " ", "C", "o", "r", "e", " ", "0">>
L_coretempCore1 == <<"c", "o", "r", "e", "t", "e", "m", "p", " ", "C", "o", "r", "e", " ", "1">>
L_coretempPackage0 == <<"c", "o", "r", "e", "t", "e", "m", "p", " ", "P", "a", "c", "k", "a", "g", "e", " ", "i", "d", " ", "0">>
L_coretempPackage1 == <<"c", "o", "r", "e", "t", "e", "m", "p", " ", "P", "a", "c", "k", "a", "g", "e", " ", "i", "d", " ", "1">>
L_Core0 == <<"C", "o", "r", "e", " ", "0">>
L_Core1 == <<"C", "o", "r", "e", " ", "1">>
L_Package0 == <<"P", "a", "c", "k", "a", "g", "e", " ", "i", "d", " ", "0">>
L_spd5118 == <<"s", "p", "d", "5", "1", "1", "8", " ", "t", "e", "m", "p", "1">>
L_iwlwifi == <<"i", "w", "l", "w", "i", "f", "i", "_", "1", " ", "t", "e", "m", "p", "1">>
L_nvmeComposite == <<"n", "v", "m", "e", " ", "C", "o", "m", "p", "o", "s", "i", "t", "e", " ", "X", " ", "S", "S", "D", " ", "t", "e", "m", "p", "1">>
L_nvmeSensor2 == <<"n", "v", "m", "e", " ", "S", "e", "n", "s", "o", "r", " ", "1", " ", "X", " ", "S", "S", "D", " ", "t", "e", "m", "p", "2">>

\* u8 value of a character (String is ordered byte-wise).
Byte(c) ==
    CASE c = " " -> 32
      [] c = "-" -> 45
      [] c = "0" -> 48
      [] c = "1" -> 49
      [] c = "2" -> 50
      [] c = "5" -> 53
      [] c = "8" -> 56
      [] c = ";" -> 59
      [] c = "A" -> 65
      [] c = "C" -> 67
      [] c = "D" -> 68
      [] c = "F" -> 70
      [] c = "M" -> 77
      [] c = "P" -> 80
      [] c = "R" -> 82
      [] c = "S" -> 83
      [] c = "U" -> 85
      [] c = "V" -> 86
      [] c = "W" -> 87
      [] c = "X" -> 88
      [] c = "_" -> 95
      [] c = "a" -> 97
      [] c = "b" -> 98
      [] c = "c" -> 99
      [] c = "d" -> 100
      [] c = "e" -> 101
      [] c = "f" -> 102
      [] c = "g" -> 103
      [] c = "h" -> 104
      [] c = "i" -> 105
      [] c = "k" -> 107
      [] c = "l" -> 108
      [] c = "m" -> 109
      [] c = "n" -> 110
      [] c = "o" -> 111
      [] c = "p" -> 112
      [] c = "r" -> 114
      [] c = "s" -> 115
      [] c = "t" -> 116
      [] c = "v" -> 118
      [] c = "w" -> 119
      [] c = "z" -> 122

Drop(s, n) == SubSeq(s, n + 1, Len(s))

\* str::starts_with
starts_with(s, p) == Len(p) <= Len(s) /\ SubSeq(s, 1, Len(p)) = p

\* str::contains
contains(s, p) == \E i \in 0..(Len(s) - Len(p)) : SubSeq(s, i + 1, i + Len(p)) = p

\* str::replace: every non-overlapping match, left to right.
RECURSIVE replace(_, _, _)
replace(s, from, to) ==
    IF s = <<>> THEN <<>>
    ELSE IF starts_with(s, from) THEN to \o replace(Drop(s, Len(from)), from, to)
    ELSE <<Head(s)>> \o replace(Tail(s), from, to)

is_ascii_digit(c) == c \in {"0", "1", "2", "3", "4", "5", "6", "7", "8", "9"}

is_whitespace(c) == c = " "

\* Iterator::skip_while(|c| c.is_ascii_digit() || c.is_whitespace())
RECURSIVE skip_while(_)
skip_while(s) ==
    IF s # <<>> /\ (is_ascii_digit(Head(s)) \/ is_whitespace(Head(s)))
    THEN skip_while(Tail(s))
    ELSE s

\* Ord for String: lexicographic on bytes.
RECURSIVE StrLess(_, _)
StrLess(a, b) ==
    IF b = <<>> THEN FALSE
    ELSE IF a = <<>> THEN TRUE
    ELSE IF Byte(Head(a)) # Byte(Head(b)) THEN Byte(Head(a)) < Byte(Head(b))
    ELSE StrLess(Tail(a), Tail(b))

----------------------------------------------------------------------------
(* BTreeMap<String, Vec<u32>>: entries kept in ascending key order *)

BTreeHas(map, k) == \E i \in 1..Len(map) : map[i].k = k

BTreeGet(map, k) == map[CHOOSE i \in 1..Len(map) : map[i].k = k].v

\* a map that keeps insertion order: new keys go to the end
BTreePos_append(map, k) == Len(map)

\* position at which key k is inserted: after every smaller key
BTreePos(map, k) == Cardinality({i \in 1..Len(map) : StrLess(map[i].k, k)})

\* BTreeMap::insert: replaces the value of an existing key
BTreeInsert(map, k, v) ==
    IF BTreeHas(map, k)
    THEN [i \in 1..Len(map) |-> IF map[i].k = k THEN [k |-> k, v |-> v] ELSE map[i]]
    ELSE SubSeq(map, 1, BTreePos(map, k)) \o <<[k |-> k, v |-> v]>>
         \o SubSeq(map, BTreePos(map, k) + 1, Len(map))

\* entry(k).and_modify(|temps| temps.push(temp)).or_insert_with(|| vec![temp])
BTreeEntryPush(map, k, temp) ==
    IF BTreeHas(map, k)
    THEN [i \in 1..Len(map) |-> IF map[i].k = k THEN [k |-> k, v |-> Append(map[i].v, temp)] ELSE map[i]]
    ELSE BTreeInsert(map, k, <<temp>>)

\* BTreeMap::remove: the map without the key
BTreeRemove(map, k) == SelectSeq(map, LAMBDA e : e.k # k)

----------------------------------------------------------------------------
(* Sensor classifier: get_comp_temps (main.rs:183-224) *)

None == <<>>

Some(x) == <<x>>

\* Option::unwrap_or
unwrap_or(o, d) == IF o = None THEN d ELSE o[1]

Deg(n) == 2 * n

DegHalf(n) == 2 * n + 1

\* `t as u32` of a float: truncation toward zero, negative saturates to 0
as_u32(t) == IF t < 0 THEN 0 ELSE t \div 2

\* `t.round() as u32`: half away from zero, negative saturates to 0
round_as_u32(t) == IF t < 0 THEN 0 ELSE (t + 1) \div 2


\* a normalization that rewrites "Core " to "core " instead of deleting it
label_name_core_kept(label) == replace(replace(label, S_Core_, S_core_), S_coretemp_, S_core_)

\* let name = comp.label().replace("Core ", "").replace("coretemp ", "core ")
label_name(label) == replace(replace(label, S_Core_, <<>>), S_coretemp_, S_core_)

\* name.strip_prefix("core ").map_or(false, |suffix| suffix.chars().all(..))
is_core(name) ==
    /\ starts_with(name, S_core_)
    /\ \A i \in (Len(S_core_) + 1)..Len(name) : is_ascii_digit(name[i])

\* the device clean-up chain of a name that is neither package nor core
device_name(name) ==
    LET stripped ==
            IF starts_with(name, S_nvmeSensor_) THEN skip_while(Drop(name, Len(S_nvmeSensor_)))
            ELSE IF starts_with(name, S_nvmeComposite_) THEN Drop(name, Len(S_nvmeComposite_))
            ELSE name
        renamed == replace(replace(replace(replace(stripped, S_SSD_, <<>>), S__temp1, <<>>),
                                   S_acpitz, S_Motherboard), S_spd5118, S_RAM)
    IN IF contains(renamed, S_wifi) THEN S_WiFi ELSE renamed

(* The sensors of the modelled machines and the temperatures each reports *)

Sensors == {
    [label |-> L_coretempCore0, temps |-> {Some(Deg(40)), Some(DegHalf(40))}],
    [label |-> L_coretempCore1, temps |-> {Some(Deg(40)), Some(Deg(60))}],
    [label |-> L_coretempPackage0, temps |-> {Some(Deg(55))}],
    [label |-> L_coretempPackage1, temps |-> {Some(Deg(60))}],
    [label |-> L_Core0, temps |-> {Some(Deg(40))}],
    [label |-> L_Core1, temps |-> {Some(Deg(60))}],
    [label |-> L_Package0, temps |-> {Some(Deg(55))}],
    [label |-> S_Composite, temps |-> {Some(Deg(40))}],
    [label |-> S_CompositeVariant, temps |-> {Some(Deg(60))}],
    [label |-> L_nvmeComposite, temps |-> {Some(Deg(40))}],
    [label |-> L_nvmeSensor2, temps |-> {Some(Deg(55))}],
    [label |-> L_spd5118, temps |-> {None, Some(Deg(60))}],
    [label |-> L_iwlwifi, temps |-> {Some(Deg(55))}]}

Labels == {s.label : s \in Sensors}

\* what the loop body derives from the label of a component, tabulated
\* over the labels of the modelled sensors
classified ==
    [l \in Labels |->
        [package |-> contains(label_name(l), S_corePackage),
         core |-> is_core(label_name(l)),
         device |-> device_name(label_name(l)),
         composite |-> contains(l, S_Composite)]]

\* the key closure of comps.sort_by_key
sort_key(c) ==
    IF classified[c.label].composite
    THEN 0
    ELSE 100000 - as_u32(unwrap_or(c.temp, 0))

\* one insertion of the stable sort: c goes after every element whose key
\* is not greater than its own
sort_insert(sorted, c) ==
    LET n == Cardinality({i \in 1..Len(sorted) : sort_key(sorted[i]) <= sort_key(c)})
    IN SubSeq(sorted, 1, n) \o <<c>> \o SubSeq(sorted, n + 1, Len(sorted))

\* slice::sort_by_key (stable)
RECURSIVE sort_by_key(_)
sort_by_key(s) ==
    IF s = <<>> THEN <<>>
    ELSE sort_insert(sort_by_key(SubSeq(s, 1, Len(s) - 1)), s[Len(s)])

\* the body of `for comp in comps`
classify_one(map, comp) ==
    LET temp == round_as_u32(unwrap_or(comp.temp, 0))
    IN IF classified[comp.label].package THEN BTreeInsert(map, S_CPU, <<temp>>)
       ELSE IF classified[comp.label].core THEN BTreeEntryPush(map, S_Core, temp)
       ELSE BTreeEntryPush(map, classified[comp.label].device, temp)

RECURSIVE classify_all(_, _)
classify_all(map, comps) ==
    IF comps = <<>> THEN map
    ELSE classify_all(classify_one(map, Head(comps)), Tail(comps))

get_comp_temps(comps) == classify_all(<<>>, sort_by_key(comps))

\* Iterator::max().unwrap_or(0) over a Vec<u32>
max_or_0(v) == IF v = <<>> THEN 0 ELSE CHOOSE m \in {v[i] : i \in 1..Len(v)} : \A j \in 1..Len(v) : v[j] <= m

\* comp_temps.remove(k).unwrap_or_default()
remove_or_default(map, k) == IF BTreeHas(map, k) THEN BTreeGet(map, k) ELSE <<>>

\* slice::sort_unstable on Vec<(String, Vec<u32>)>: keys are unique, so the
\* order is the order of the names
RECURSIVE sort_unstable(_)
sort_unstable(v) ==
    IF v = <<>> THEN <<>>
    ELSE LET i == CHOOSE i \in 1..Len(v) : \A j \in 1..Len(v) : ~StrLess(v[j].k, v[i].k)
         IN <<v[i]>> \o sort_unstable(SubSeq(v, 1, i - 1) \o SubSeq(v, i + 1, Len(v)))

MaxComps == 3

TempsOf(label) == (CHOOSE s \in Sensors : s.label = label).temps

Readings == UNION {{[label |-> s.label, temp |-> t] : t \in s.temps} : s \in Sensors}

CompLists == UNION {[1..n -> Readings] : n \in 0..MaxComps}

\* the lists components.refresh can turn a list into: same sensors, new temperatures
RECURSIVE Refreshed(_)
Refreshed(comps) ==
    IF comps = <<>> THEN {<<>>}
    ELSE {<<[label |-> Head(comps).label, temp |-> t]>> \o rest :
              t \in TempsOf(Head(comps).label), rest \in Refreshed(Tail(comps))}

CompIdle ==
    /\ components = <<>>
    /\ comp_temps = <<>>
    /\ cpu_temp = 0
    /\ core_temps = <<>>
    /\ max_core_temp = 0
    /\ extra_temps = <<>>
    /\ cphase = "idle"

CompInit ==
    /\ components \in CompLists
    /\ comp_temps = <<>>
    /\ cpu_temp = 0
    /\ core_temps = <<>>
    /\ max_core_temp = 0
    /\ extra_temps = <<>>
    /\ cphase = "refreshed"

\* components.refresh(true) at the top of an iteration (main.rs:319); the
\* locals of the previous iteration are gone
ComponentsRefresh ==
    /\ cphase = "composed"
    /\ components' \in Refreshed(components)
    /\ comp_temps' = <<>>
    /\ cpu_temp' = 0
    /\ core_temps' = <<>>
    /\ max_core_temp' = 0
    /\ extra_temps' = <<>>
    /\ cphase' = "refreshed"
    /\ UNCHANGED <<rvars, bvars, mvars, svars, nvars>>

\* main.rs:338-340, 383 and 450-451
ComponentTemps ==
    /\ cphase = "refreshed"
    /\ \E ret \in {get_comp_temps(components)} :
          /\ comp_temps' = ret
          /\ cpu_temp' = IF BTreeHas(ret, S_CPU) THEN BTreeGet(ret, S_CPU)[1] ELSE 0
          /\ core_temps' = remove_or_default(ret, S_Core)
          /\ max_core_temp' = max_or_0(remove_or_default(ret, S_Core))
          /\ extra_temps' = sort_unstable(BTreeRemove(BTreeRemove(ret, S_CPU), S_Core))
    /\ cphase' = "composed"
    /\ UNCHANGED <<components, rvars, bvars, mvars, svars, nvars>>

----------------------------------------------------------------------------
(* Table layout: sized_rows (main.rs:7-21) and rows (main.rs:24-33) *)

\* str::len of one character: bytes of its UTF-8 encoding
char_len(c) == IF c = "°" THEN 2 ELSE 1

\* str::len
RECURSIVE str_len(_)
str_len(s) == IF s = <<>> THEN 0 ELSE char_len(Head(s)) + str_len(Tail(s))

\* r.split(";").collect::<Vec<_>>()
RECURSIVE split(_)
split(s) ==
    IF \A i \in 1..Len(s) : s[i] # ";" THEN <<s>>
    ELSE LET at == CHOOSE i \in 1..Len(s) : s[i] = ";" /\ \A j \in 1..(i - 1) : s[j] # ";"
         IN <<SubSeq(s, 1, at - 1)>> \o split(Drop(s, at))

Spaces(n) == [i \in 1..n |-> " "]

\* format!("{item:<width$} "): padded to width characters, then one space
format_cell(item, w) == item \o Spaces(IF w > Len(item) THEN w - Len(item) ELSE 0) \o <<" ">>

RECURSIVE format_row(_, _, _)
format_row(row, sizes, i) ==
    IF i > Len(row) THEN <<"\n">>
    ELSE format_cell(row[i], sizes[i]) \o format_row(row, sizes, i + 1)

RECURSIVE format_rows(_, _)
format_rows(cols, sizes) ==
    IF cols = <<>> THEN <<>>
    ELSE format_row(Head(cols), sizes, 1) \o format_rows(Tail(cols), sizes)

Returned(text) == [panic |-> FALSE, text |-> text]

Panicked == [panic |-> TRUE, text |-> <<>>]

\* sized_rows that pairs cells with sizes and drops the cells left over
sized_rows_zip(rs, sizes) ==
    LET cols == [r \in 1..Len(rs) |-> split(rs[r])]
        cut == [r \in 1..Len(rs) |-> SubSeq(cols[r], 1, IF Len(cols[r]) < Len(sizes) THEN Len(cols[r]) ELSE Len(sizes))]
    IN IF cols = <<>> THEN Returned(<<>>) ELSE Returned(format_rows(cut, sizes))

\* sized_rows: the assert_eq! and the index sizes[i] panic
sized_rows(rs, sizes) ==
    LET cols == [r \in 1..Len(rs) |-> split(rs[r])]
    IN IF cols = <<>> THEN Returned(<<>>)
       ELSE IF Len(cols[1]) # Len(sizes) THEN Panicked
       ELSE IF \E r \in 1..Len(cols) : Len(cols[r]) > Len(sizes) THEN Panicked
       ELSE Returned(format_rows(cols, sizes))

Max(S) == CHOOSE m \in S : \A x \in S : x <= m

\* column widths taken from the first row only
max_lens_first(cols) == [i \in 1..Len(cols[1]) |-> str_len(cols[1][i])]

\* cols.iter().map(|row| row[i].len()).max() for every column of the first row
max_lens(cols) == [i \in 1..Len(cols[1]) |-> Max({str_len(cols[r][i]) : r \in 1..Len(cols)})]

\* rows: the index row[i] panics on a row shorter than the first
rows(rs) ==
    LET cols == [r \in 1..Len(rs) |-> split(rs[r])]
    IN IF cols = <<>> THEN Returned(<<>>)
       ELSE IF \E r \in 1..Len(cols) : Len(cols[r]) < Len(cols[1]) THEN Panicked
       ELSE sized_rows(rs, max_lens(cols))

R_a_bb == <<"a", ";", "b", "b">>
R_ccc_d == <<"c", "c", "c", ";", "d">>
R_a == <<"a">>
R_a_b_c == <<"a", ";", "b", ";", "c">>
R_deg_d == <<"°", "C", ";", "d">>

MaxRows == 3

RowStrings == {R_a_bb, R_ccc_d, R_a, R_a_b_c, R_deg_d, <<>>}

RowTables == UNION {[1..n -> RowStrings] : n \in 0..MaxRows}

RowsInit ==
    /\ table \in RowTables
    /\ rows_out = Returned(<<>>)
    /\ rphase = "call"

\* write!(out, "{}", rows(&disk_infos)) (main.rs:446, 465)
RowsCall ==
    /\ rphase = "call"
    /\ rows_out' = rows(table)
    /\ rphase' = IF rows(table).panic THEN "panicked" ELSE "returned"
    /\ UNCHANGED <<table, cvars, bvars, mvars, svars, nvars>>

\* the rows of the next tick
RowsNext ==
    /\ rphase = "returned"
    /\ table' \in RowTables
    /\ rows_out' = Returned(<<>>)
    /\ rphase' = "call"
    /\ UNCHANGED <<cvars, bvars, mvars, svars, nvars>>

----------------------------------------------------------------------------
(* Percentages, colours and the capacity bar (main.rs:48-59, 121-162, 350) *)
(* A float that is a quotient of two integers is kept as that quotient;    *)
(* within the bounds below the f32/f64 results of the code equal the exact *)
(* ones.                                                                   *)

\* what `+inf as u32` saturates to. The code's value is u32::MAX =
\* 4294967295; TLC's integers end at 2^31 - 1, which stands for it
\* here (all that is used of it is that it lies above every tier bound).
U32_MAX == 2147483647

\* `(num / den * 100.0).round() as u32` for integers num >= 0, den >= 0:
\* 0.0/0.0 is NaN and casts to 0, x/0.0 is +inf and saturates
round_percent(num, den) ==
    IF den = 0 THEN (IF num = 0 THEN 0 ELSE U32_MAX)
    ELSE (200 * num + den) \div (2 * den)

\* a slider that draws nothing in its lowest tier
percent_slider_blank(percent) ==
    IF percent <= 12 THEN " "
    ELSE IF percent <= 25 THEN "▎"
    ELSE IF percent <= 37 THEN "▍"
    ELSE IF percent <= 50 THEN "▌"
    ELSE IF percent <= 62 THEN "▋"
    ELSE IF percent <= 75 THEN "▊"
    ELSE IF percent <= 87 THEN "▉"
    ELSE "█"

percent_slider(percent) ==
    IF percent <= 12 THEN "▏"
    ELSE IF percent <= 25 THEN "▎"
    ELSE IF percent <= 37 THEN "▍"
    ELSE IF percent <= 50 THEN "▌"
    ELSE IF percent <= 62 THEN "▋"
    ELSE IF percent <= 75 THEN "▊"
    ELSE IF percent <= 87 THEN "▉"
    ELSE "█"

percent_col(percent) ==
    IF percent <= 25 THEN "blue"
    ELSE IF percent <= 50 THEN "sky"
    ELSE IF percent <= 75 THEN "magenta"
    ELSE "red"

\* the percent of mem_usage and the colour of both numbers
mem_usage(u, t) ==
    [percent |-> round_percent(u, t), col |-> percent_col(round_percent(u, t))]

\* the percent of mhz: the ratio is squared
mhz(clock, max_clock) ==
    [percent |-> round_percent(clock * clock, max_clock * max_clock),
     col |-> percent_col(round_percent(clock * clock, max_clock * max_clock))]

\* (used / total).min(1.0) as a quotient: inf and NaN both give 1.0
ratio_min_1(u, t) == IF t = 0 \/ u >= t THEN [num |-> 1, den |-> 1] ELSE [num |-> u, den |-> t]

mem_bar(u, t, w) ==
    LET ratio == ratio_min_1(u, t)
        full_blocks == (ratio.num * w) \div ratio.den
        percent == round_percent(ratio.num, ratio.den)
        bar == [i \in 1..full_blocks |-> "█"]
        remainder_percent == round_percent((ratio.num * w) % ratio.den, ratio.den)
        remainder == percent_slider(remainder_percent)
        empty == [i \in 1..(w - full_blocks - 1) |-> " "]
    IN IF full_blocks = w
       THEN [cells |-> bar, percent |-> percent, col |-> percent_col(percent), usage |-> mem_usage(u, t)]
       ELSE [cells |-> bar \o <<remainder>> \o empty, percent |-> percent,
             col |-> percent_col(percent), usage |-> mem_usage(u, t)]

MaxUsed == 12

MaxTotal == 10

MaxWidth == 10

NoBar == [cells |-> <<>>, percent |-> 0, col |-> "blue", usage |-> [percent |-> 0, col |-> "blue"]]

BarInit ==
    /\ used \in 0..MaxUsed
    /\ total \in 0..MaxTotal
    /\ width \in 0..MaxWidth
    /\ bar_out = NoBar
    /\ usage_out = 0
    /\ mhz_out = 0
    /\ power_out = 0
    /\ bphase = "sampled"

\* the values read by the next tick
BarSample ==
    /\ bphase = "composed"
    /\ used' \in 0..MaxUsed
    /\ total' \in 0..MaxTotal
    /\ UNCHANGED width
    /\ bar_out' = NoBar
    /\ usage_out' = 0
    /\ mhz_out' = 0
    /\ power_out' = 0
    /\ bphase' = "sampled"
    /\ UNCHANGED <<cvars, rvars, mvars, svars, nvars>>

\* main.rs:350 (power), 358-363 (mem_bar, mem_usage), 398-399 (mhz)
BarCompose ==
    /\ bphase = "sampled"
    /\ bar_out' = mem_bar(used, total, width)
    /\ usage_out' = mem_usage(used, total).percent
    /\ mhz_out' = mhz(used, total).percent
    /\ power_out' = round_percent(used, total)
    /\ bphase' = "composed"
    /\ UNCHANGED <<used, total, width, cvars, rvars, mvars, svars, nvars>>

----------------------------------------------------------------------------
(* Control flow of main (main.rs:62-473) *)
(* `out` holds the tags of the lines written to the frame buffer; stdout   *)
(* holds what print!/println! have written: control sequences, the lines   *)
(* of info mode, and frames.                                               *)

MaxTicks == 2

use_ansi == "plain" \notin args

\* reads of the start-up whose error ends main (`?`, ok_or)
StartupReads == {"Nvml::init", "Motherboard::new"}

\* reads of info mode, all propagated with `?`
InfoReads == {"info device_count", "info device_by_index", "info gpu queries"}

\* reads of a tick that are propagated with `?`
UtilizationReads == {"utilization_rates", "temperature", "power_usage", "power_management_limit"}

PcieReads == {"pcie_throughput rx", "pcie_throughput tx", "max_pcie_link_gen", "max_pcie_link_width"}

\* reads of a tick whose error is replaced by a default (unwrap_or)
FanReads == {"num_fans", "fan_speed", "fan_speed_rpm"}

ClockReads == {"clock_info", "max_clock_info"}

Ctl(name) == [kind |-> name, lines |-> <<>>]

Frame(lines) == [kind |-> "frame", lines |-> lines]

\* main returns Err(e): nothing more is printed
ReturnErr(read) ==
    /\ pc' = "exit_err"
    /\ failed' = read

MainInit ==
    /\ pc = "init"
    /\ args \in SUBSET {"plain", "info", "extra"}
    /\ out = <<>>
    /\ stdout = <<>>
    /\ refreshed = FALSE
    /\ failed = "none"
    /\ ticks = 0

\* main.rs:63-85 and 226, 305-307: construction of the sources, then the
\* branch to info mode or into the loop
Startup ==
    /\ pc = "init"
    /\ \E res \in {"ok"} \cup StartupReads :
          IF res # "ok"
          THEN ReturnErr(res) /\ UNCHANGED stdout
          ELSE /\ failed' = failed
               /\ IF "info" \in args
                  THEN pc' = "info" /\ UNCHANGED stdout
                  ELSE /\ pc' = "loop"
                       /\ stdout' = IF use_ansi THEN Append(stdout, Ctl("alt_screen")) ELSE stdout
    /\ UNCHANGED <<args, out, refreshed, ticks, cvars, rvars, bvars, svars, nvars>>

\* main.rs:226-304: every line is printed as soon as it is composed
InfoMode ==
    /\ pc = "info"
    /\ \E res \in {"ok"} \cup InfoReads :
          IF res # "ok"
          THEN ReturnErr(res) /\ stdout' = Append(stdout, [kind |-> "info", lines |-> <<"CPU">>])
          ELSE /\ pc' = "exit_ok"
               /\ failed' = failed
               /\ stdout' = Append(stdout, [kind |-> "info", lines |-> <<"CPU", "GPU", "MOBO", "COMP", "NETS">>])
    /\ UNCHANGED <<args, out, refreshed, ticks, cvars, rvars, bvars, svars, nvars>>

\* main.rs:308-312: top of an iteration
LoopTop ==
    /\ pc = "loop"
    /\ ticks < MaxTicks
    /\ stdout' = IF use_ansi THEN Append(stdout, Ctl("clear")) ELSE stdout
    /\ refreshed' = FALSE
    /\ pc' = "refresh"
    /\ UNCHANGED <<args, out, failed, ticks, cvars, rvars, bvars, svars, nvars>>

\* main.rs:315-321: sleep, refresh of the four sources, a new buffer
Refresh ==
    /\ pc = "refresh"
    /\ refreshed' = TRUE
    /\ out' = <<>>
    /\ pc' = "gpu"
    /\ UNCHANGED <<args, stdout, failed, ticks, cvars, rvars, bvars, svars, nvars>>

\* main.rs:323: nvml.device_by_index(0)?
GpuHandle ==
    /\ pc = "gpu"
    /\ \E ok \in BOOLEAN :
          IF ok THEN pc' = "fans" /\ failed' = failed
          ELSE ReturnErr("device_by_index")
    /\ UNCHANGED <<args, out, stdout, refreshed, ticks, cvars, rvars, bvars, svars, nvars>>

\* main.rs:326-335: fan reads default to 1 / 0
Fans ==
    /\ pc = "fans"
    /\ \E res \in {"ok"} \cup FanReads : failed' = IF res = "ok" THEN failed ELSE res
    /\ pc' = "utilization"
    /\ UNCHANGED <<args, out, stdout, refreshed, ticks, cvars, rvars, bvars, svars, nvars>>

\* main.rs:338-355: component temperatures, the four GPU reads, the CPU and
\* GPU lines
Utilization ==
    /\ pc = "utilization"
    /\ \E res \in {"ok"} \cup UtilizationReads :
          IF res # "ok"
          THEN ReturnErr(res) /\ UNCHANGED out
          ELSE /\ out' = out \o <<"CPU", "GPU">>
               /\ pc' = "memory"
               /\ failed' = failed
    /\ UNCHANGED <<args, stdout, refreshed, ticks, cvars, rvars, bvars, svars, nvars>>

\* main.rs:358-364: the RAM line, gpu.memory_info()?, the VRAM line
Memory ==
    /\ pc = "memory"
    /\ \E ok \in BOOLEAN :
          IF ok
          THEN /\ out' = out \o <<"RAM", "VRAM">>
               /\ pc' = "cores"
               /\ failed' = failed
          ELSE /\ out' = Append(out, "RAM")
               /\ ReturnErr("memory_info")
    /\ UNCHANGED <<args, stdout, refreshed, ticks, cvars, rvars, bvars, svars, nvars>>

\* main.rs:367-402: core lines, the clock reads (defaulted to 0), CLCK, FANS
CoresAndClocks ==
    /\ pc = "cores"
    /\ \E res \in {"ok", "max_freq"} \cup ClockReads : failed' = IF res = "ok" THEN failed ELSE res
    /\ out' = out \o <<"CORE", "FREQ", "TEMP", "CLCK", "FANS">>
    /\ pc' = "pcie"
    /\ UNCHANGED <<args, stdout, refreshed, ticks, cvars, rvars, bvars, svars, nvars>>

\* main.rs:405-422: the four PCIe reads, the PCIE line
Pcie ==
    /\ pc = "pcie"
    /\ \E res \in {"ok"} \cup PcieReads :
          IF res # "ok"
          THEN ReturnErr(res) /\ UNCHANGED out
          ELSE /\ out' = Append(out, "PCIE")
               /\ pc' = "tables"
               /\ failed' = failed
    /\ UNCHANGED <<args, stdout, refreshed, ticks, cvars, rvars, bvars, svars, nvars>>

\* main.rs:425-466: NETW when an interface passes the filter, the disk
\* table, the extended table when "extra" is given
Tables ==
    /\ pc = "tables"
    /\ \E netw \in BOOLEAN :
          out' = out \o (IF netw THEN <<"NETW">> ELSE <<>>) \o <<"DISKS">>
                     \o (IF "extra" \in args THEN <<"EXTRA">> ELSE <<>>)
    /\ pc' = "emit"
    /\ UNCHANGED <<args, stdout, refreshed, failed, ticks, cvars, rvars, bvars, svars, nvars>>

\* an emit that goes round the loop in plain mode too
Emit_no_break ==
    /\ pc = "emit"
    /\ stdout' = Append(stdout, Frame(out))
    /\ ticks' = ticks + 1
    /\ pc' = "loop"
    /\ out' = <<>>
    /\ UNCHANGED <<args, refreshed, failed, cvars, rvars, bvars, svars, nvars>>

\* main.rs:467-473: the one print of the buffer, dropped at the end of the
\* iteration; plain mode breaks
Emit ==
    /\ pc = "emit"
    /\ stdout' = Append(stdout, Frame(out))
    /\ ticks' = ticks + 1
    /\ pc' = IF use_ansi THEN "loop" ELSE "exit_ok"
    /\ out' = <<>>
    /\ UNCHANGED <<args, refreshed, failed, cvars, rvars, bvars, svars, nvars>>

----------------------------------------------------------------------------
(* format_size (main.rs:88-119)                                            *)
(*                                                                         *)
(* bytes_f / kib, bytes_f / mib and bytes_f / gib divide by a power of two *)
(* and are exact in f64 for every byte count the model draws, so a         *)
(* quotient is the exact pair (bytes \div unit, bytes % unit).  Byte       *)
(* counts are below 2^31: the branches for 100 GiB and more, and for 1 TiB *)
(* and more (main.rs:104-106, 111-118), are beyond the integers of the     *)
(* model and are never taken by an input it draws.                         *)

kib == 1024
mib == 1048576
gib == 1073741824

Digits == <<"0", "1", "2", "3", "4", "5", "6", "7", "8", "9">>

\* Display of an unsigned integer: format!("{bytes}")
RECURSIVE fmt_u64(_)
fmt_u64(n) ==
    IF n < 10 THEN <<Digits[n + 1]>>
    ELSE Append(fmt_u64(n \div 10), Digits[(n % 10) + 1])

\* the same formatting with a tie rounded away from zero, as f64::round does
fmt_prec0_half_away(num, den) ==
    LET q == num \div den
        r == num % den
    IN fmt_u64(IF 2 * r >= den THEN q + 1 ELSE q)

\* format!("{x:.0}") of the f64 x = num / den, den a power of two below 2^30:
\* core::fmt rounds the exact decimal expansion to the nearest integer and a
\* tie to the even one
fmt_prec0(num, den) ==
    LET q == num \div den
        r == num % den
    IN fmt_u64(IF 2 * r > den \/ (2 * r = den /\ q % 2 = 1) THEN q + 1 ELSE q)

\* (bytes_f / gib as f64 * 10.0).round(): the nearest number of tenths, a tie
\* away from zero.  bytes * 10 is beyond the integers of the model, so the
\* remainder is split at 2^14:
\*   floor((r * 10 + 2^29) / 2^30) with r = h * 2^14 + l
round_tenths(b) ==
    LET q == b \div gib
        r == b % gib
        h == r \div 16384
        l == r % 16384
    IN q * 10 + (h * 10 + 32768 + (l * 10) \div 16384) \div 65536

\* format!("{gib_val}") of the f64 nearest to t / 10: the shortest decimal
\* that reads back as the same f64
fmt_display_tenths(t) ==
    IF t % 10 = 0 THEN fmt_u64(t \div 10)
    ELSE fmt_u64(t \div 10) \o <<".", Digits[(t % 10) + 1]>>

format_size(b) ==
    IF b < kib THEN Append(fmt_u64(b), "B")
    ELSE IF b < mib THEN Append(fmt_prec0(b, kib), "K")
    ELSE IF b < gib THEN Append(fmt_prec0(b, mib), "M")
    ELSE Append(fmt_display_tenths(round_tenths(b)), "G")

\* byte counts around the multiples of half a KiB and of half a MiB, and
\* around the quarters of the second GiB
MaxHalves == 12

Sizes ==
    { b \in { h * (kib \div 2) + d : h \in 0..MaxHalves, d \in -1..1 }
            \cup { h * (mib \div 2) + d : h \in 0..MaxHalves, d \in -1..1 }
            \cup { gib + j * (gib \div 4) + d : j \in 0..3, d \in -1..1 } :
        b >= 0 }

SizeInit ==
    /\ bytes \in Sizes
    /\ size_out = <<>>
    /\ sphase = "asked"

\* a caller passes a byte count (main.rs:135-136, 441-442)
SizeCall ==
    /\ sphase = "formatted"
    /\ bytes' \in Sizes
    /\ size_out' = <<>>
    /\ sphase' = "asked"
    /\ UNCHANGED <<cvars, rvars, bvars, mvars, nvars>>

SizeFormat ==
    /\ sphase = "asked"
    /\ size_out' = format_size(bytes)
    /\ sphase' = "formatted"
    /\ UNCHANGED <<bytes, cvars, rvars, bvars, mvars, nvars>>

----------------------------------------------------------------------------
(* The interface of the NETW line (main.rs:178-181, 424-430)               *)
(*                                                                         *)
(* Networks is a map from interface name to NetworkData; nets is the       *)
(* sequence nets.iter() yields, in any order.                              *)

N_lo == <<"l", "o">>
N_eth0 == <<"e", "t", "h", "0">>
N_wlan0 == <<"w", "l", "a", "n", "0">>
N_veth0 == <<"v", "e", "t", "h", "0">>
N_br_1a == <<"b", "r", "-", "1", "a">>
S_veth == <<"v", "e", "t", "h">>
S_br_ == <<"b", "r", "-">>

\* interfaces of a host and the values their cumulative counters take
Interfaces == {
    [name |-> N_lo,    traffic |-> {<<3, 3>>}],
    [name |-> N_veth0, traffic |-> {<<1, 1>>}],
    [name |-> N_br_1a, traffic |-> {<<2, 0>>}],
    [name |-> N_eth0,  traffic |-> {<<0, 0>>, <<1, 0>>, <<1, 2>>}],
    [name |-> N_wlan0, traffic |-> {<<0, 0>>, <<0, 1>>, <<2, 2>>}] }

TrafficOf(name) == (CHOOSE i \in Interfaces : i.name = name).traffic

NetworkData ==
    UNION {{[name |-> i.name, total_received |-> t[1], total_transmitted |-> t[2]] : t \in i.traffic} :
              i \in Interfaces}

MaxNets == 3

\* the key of a map occurs once
NetLists ==
    {l \in UNION {[1..n -> NetworkData] : n \in 0..MaxNets} :
        \A i, j \in 1..Len(l) : i # j => l[i].name # l[j].name}

\* nets.refresh: the counters of an interface never decrease
RECURSIVE NetsRefreshed(_)
NetsRefreshed(l) ==
    IF l = <<>> THEN {<<>>}
    ELSE {<<[name |-> Head(l).name, total_received |-> t[1], total_transmitted |-> t[2]]>> \o rest :
              t \in {u \in TrafficOf(Head(l).name) :
                         u[1] >= Head(l).total_received /\ u[2] >= Head(l).total_transmitted},
              rest \in NetsRefreshed(Tail(l))}

net_filter(net) ==
    ~(\/ contains(net.name, S_veth)
      \/ net.name = N_lo
      \/ starts_with(net.name, S_br_)
      \/ net.total_received = 0 /\ net.total_transmitted = 0)

\* the key of max_by_key, under Reverse
total_traffic(net) == net.total_transmitted + net.total_received

\* Ord of Reverse<u64>: Reverse(a) > Reverse(b) iff a < b
Reverse_gt(a, b) == a < b

\* Iterator::max_by_key folds with max_by, which keeps the accumulator only
\* when it compares Greater and takes the later element otherwise
RECURSIVE max_by_key_fold(_, _)
max_by_key_fold(acc, s) ==
    IF s = <<>> THEN acc
    ELSE max_by_key_fold(IF Reverse_gt(total_traffic(acc), total_traffic(Head(s)))
                            THEN acc ELSE Head(s),
                         Tail(s))

max_by_key(s) == IF s = <<>> THEN None ELSE Some(max_by_key_fold(Head(s), Tail(s)))

\* main.rs:425-426
net_selected(l) == max_by_key(SelectSeq(l, net_filter))

NetInit ==
    /\ nets \in NetLists
    /\ netw_line = None
    /\ nphase = "refreshed"

\* main.rs:318, the start of the next frame
NetsRefresh ==
    /\ nphase = "written"
    /\ nets' \in NetsRefreshed(nets)
    /\ netw_line' = None
    /\ nphase' = "refreshed"
    /\ UNCHANGED <<cvars, rvars, bvars, mvars, svars>>

\* main.rs:424-430: the NETW line names the selected interface; without a
\* selection no line is written
NetwLine ==
    /\ nphase = "refreshed"
    /\ \E sel \in {net_selected(nets)} :
          netw_line' = IF sel = None THEN None ELSE Some(sel[1].name)
    /\ nphase' = "written"
    /\ UNCHANGED <<nets, cvars, rvars, bvars, mvars, svars>>

----------------------------------------------------------------------------
(* Idle values of the parts a specification does not exercise *)

RowsIdle ==
    /\ table = <<>>
    /\ rows_out = [panic |-> FALSE, text |-> <<>>]
    /\ rphase = "idle"

BarIdle ==
    /\ used = 0
    /\ total = 0
    /\ width = 0
    /\ bar_out = [cells |-> <<>>, percent |-> 0, col |-> "blue", usage |-> [percent |-> 0, col |-> "blue"]]
    /\ usage_out = 0
    /\ mhz_out = 0
    /\ power_out = 0
    /\ bphase = "idle"

MainIdle ==
    /\ pc = "idle"
    /\ args = {}
    /\ out = <<>>
    /\ stdout = <<>>
    /\ refreshed = FALSE
    /\ failed = "none"
    /\ ticks = 0

SizeIdle ==
    /\ bytes = 0
    /\ size_out = <<>>
    /\ sphase = "idle"

NetIdle ==
    /\ nets = <<>>
    /\ netw_line = <<>>
    /\ nphase = "idle"

----------------------------------------------------------------------------
(* The classifier driven by the refresh loop *)

InitComp == CompInit /\ RowsIdle /\ BarIdle /\ MainIdle /\ SizeIdle /\ NetIdle

NextComp == ComponentsRefresh \/ ComponentTemps

SpecComp == InitComp /\ [][NextComp]_vars

----------------------------------------------------------------------------
(* Properties of the classifier *)

RECURSIVE SumLen(_)
SumLen(map) == IF map = <<>> THEN 0 ELSE Len(Head(map).v) + SumLen(Tail(map))

Reading(l, t) == [label |-> l, temp |-> Some(t)]

Whole(c) == IF c.temp = None \/ c.temp[1] < 0 THEN 0 ELSE c.temp[1] \div 2

Rounded(c) == IF c.temp = None \/ c.temp[1] < 0 THEN 0 ELSE (c.temp[1] + 1) \div 2

\* the group each modelled label belongs to, written out by hand
NameOf(l) ==
    CASE l \in {L_coretempCore0, L_coretempCore1} -> S_Core
      [] l \in {L_coretempPackage0, L_coretempPackage1} -> S_CPU
      [] l = L_Core0 -> S_0
      [] l = L_Core1 -> S_1
      [] l = L_Package0 -> S_Packageid0
      [] l = S_Composite -> S_Composite
      [] l = S_CompositeVariant -> S_CompositeVariant
      [] l = L_nvmeComposite -> S_X
      [] l = L_nvmeSensor2 -> S_Xtemp2
      [] l = L_spd5118 -> S_RAM
      [] l = L_iwlwifi -> S_WiFi

HasComposite(l) == l \in {S_Composite, S_CompositeVariant, L_nvmeComposite}

\* hottest first, sensors labelled Composite before all others
HotKey(c) == IF HasComposite(c.label) THEN 100001 ELSE Whole(c)

\* place of the i-th reading of m when m is arranged by descending HotKey,
\* readings of equal key staying in the order supplied
Place(m, i) ==
    1 + Cardinality({j \in 1..Len(m) : HotKey(m[j]) > HotKey(m[i])})
      + Cardinality({j \in 1..(i - 1) : HotKey(m[j]) = HotKey(m[i])})

HotFirst(m, v) ==
    /\ Len(v) = Len(m)
    /\ \A i \in 1..Len(m) : v[Place(m, i)] = Rounded(m[i])

Members(name) == SelectSeq(components, LAMBDA c : NameOf(c.label) = name)

BareScenario == <<Reading(L_Core0, Deg(40)), Reading(L_Core1, Deg(60)), Reading(L_Package0, Deg(55))>>

CoretempScenario ==
    <<Reading(L_coretempCore0, Deg(40)), Reading(L_coretempCore1, Deg(60)),
      Reading(L_coretempPackage0, Deg(55))>>

IsBareCoreLabel(l) ==
    /\ starts_with(l, S_Core_)
    /\ Len(l) > Len(S_Core_)
    /\ \A i \in (Len(S_Core_) + 1)..Len(l) : is_ascii_digit(l[i])

\* C1 as stated: the readings ("Core 0",40), ("Core 1",60), ("Package id 0",55)
\* classify into Core -> [40,60] and CPU -> [55] with cpu_temp 55 and
\* max_core_temp 60, and every reading labelled "Core <digits>" lands in the
\* "Core" bucket in the order the readings were supplied.
C1_BareLabels ==
    cphase = "composed" =>
        /\ components = BareScenario =>
              /\ BTreeHas(comp_temps, S_Core) /\ BTreeGet(comp_temps, S_Core) = <<40, 60>>
              /\ BTreeHas(comp_temps, S_CPU) /\ BTreeGet(comp_temps, S_CPU) = <<55>>
              /\ cpu_temp = 55
              /\ max_core_temp = 60
        /\ LET bare == SelectSeq(components, LAMBDA c : IsBareCoreLabel(c.label))
           IN bare # <<>> =>
                 /\ BTreeHas(comp_temps, S_Core)
                 /\ \E at \in [1..Len(bare) -> 1..Len(core_temps)] :
                       /\ \A i, j \in 1..Len(bare) : i < j => at[i] < at[j]
                       /\ \A i \in 1..Len(bare) : core_temps[at[i]] = Rounded(bare[i])

\* C1 amended: the readings ("coretemp Core 0",40), ("coretemp Core 1",60),
\* ("coretemp Package id 0",55) classify into Core -> [60,40] and CPU -> [55]
\* with cpu_temp 55 and max_core_temp 60; the "Core" bucket holds one value
\* per reading labelled "coretemp Core <digits>", hottest first (descending
\* whole degrees, equal ones in the order supplied).
C1_CoretempLabels ==
    cphase = "composed" =>
        /\ components = CoretempScenario =>
              /\ BTreeGet(comp_temps, S_Core) = <<60, 40>>
              /\ BTreeGet(comp_temps, S_CPU) = <<55>>
              /\ cpu_temp = 55
              /\ max_core_temp = 60
        /\ HotFirst(SelectSeq(components, LAMBDA c : c.label \in {L_coretempCore0, L_coretempCore1}),
                    core_temps)

C1_Witness == cphase = "composed" /\ components = CoretempScenario

PrefixRelated(a, b) == starts_with(a, b) \/ starts_with(b, a)

DeviceReadings == SelectSeq(components, LAMBDA c : NameOf(c.label) \notin {S_CPU, S_Core})

\* C2 as stated: a reading whose normalized name is a prefix of the name of
\* an existing group, or has it as a prefix, is appended to that group and
\* no new group is created; readings with unrelated names are in different
\* groups.
C2_PrefixMerge ==
    cphase = "composed" =>
        /\ \A i, j \in 1..Len(extra_temps) :
              i # j => ~PrefixRelated(extra_temps[i].k, extra_temps[j].k)
        /\ \A i \in 1..Len(DeviceReadings) :
              \E g \in 1..Len(extra_temps) :
                 PrefixRelated(extra_temps[g].k, NameOf(DeviceReadings[i].label))
        /\ \A i, j \in 1..Len(DeviceReadings) :
              ~PrefixRelated(NameOf(DeviceReadings[i].label), NameOf(DeviceReadings[j].label))
                 => Len(extra_temps) >= 2

\* C3 as stated: the lengths of the value sequences returned by
\* get_comp_temps, the CPU and Core buckets included, add up to the number
\* of readings, and a reading without temperature contributes the value 0.
C3_EveryReadingCounted ==
    cphase = "composed" =>
        /\ SumLen(comp_temps) = Len(components)
        /\ \A i \in 1..Len(components) :
              components[i].temp = None =>
                 \E g \in 1..Len(comp_temps) : \E n \in 1..Len(comp_temps[g].v) : comp_temps[g].v[n] = 0

GroupHasComposite(name) ==
    \E i \in 1..Len(components) :
        NameOf(components[i].label) = name /\ HasComposite(components[i].label)

\* every value of group a is below every value of group b
Cooler(a, b) == \A i \in 1..Len(a.v), j \in 1..Len(b.v) : a.v[i] < b.v[j]

CompositeFirstThenHot(groups) ==
    \A i, j \in 1..Len(groups) :
        i < j =>
            /\ GroupHasComposite(groups[j].k) => GroupHasComposite(groups[i].k)
            /\ ~GroupHasComposite(groups[i].k) /\ ~GroupHasComposite(groups[j].k)
                  => ~Cooler(groups[i], groups[j])

\* C4 as stated: the groups returned by get_comp_temps and the rows of the
\* extended table are ordered with the groups of Composite sensors first
\* and the others by descending current temperature, in every tick.
C4_CompositeFirst ==
    cphase = "composed" =>
        /\ CompositeFirstThenHot(comp_temps)
        /\ CompositeFirstThenHot(extra_temps)

Ascending(groups) == \A i, j \in 1..Len(groups) : i < j => StrLess(groups[i].k, groups[j].k)

\* C4 amended: the groups returned by get_comp_temps and the rows of the
\* extended table are in ascending byte order of the group names, whatever
\* the labels and temperatures; the Composite-first, hottest-first key only
\* orders the values inside a group (the CPU bucket keeps a single value);
\* this holds after the classification of every tick.
C4_NameOrder ==
    cphase = "composed" =>
        /\ Ascending(comp_temps)
        /\ Ascending(extra_temps)
        /\ \A g \in 1..Len(extra_temps) :
              HotFirst(Members(extra_temps[g].k), extra_temps[g].v)
        /\ \A g \in 1..Len(extra_temps) :
              \E h \in 1..Len(comp_temps) : comp_temps[h] = extra_temps[g]

C4_Witness ==
    /\ cphase = "composed"
    /\ Len(extra_temps) = 2
    /\ extra_temps[1].k = S_RAM
    /\ extra_temps[2].k = S_X
    /\ Len(extra_temps[2].v) = 2

----------------------------------------------------------------------------
(* The table layout called on the rows of a tick *)

InitRows == RowsInit /\ CompIdle /\ BarIdle /\ MainIdle /\ SizeIdle /\ NetIdle

NextRows == RowsCall \/ RowsNext

SpecRows == InitRows /\ [][NextRows]_vars

CellsOf(r) == 1 + Cardinality({i \in 1..Len(table[r]) : table[r][i] = ";"})

SameCellCount == \A r \in 1..Len(table) : CellsOf(r) = CellsOf(1)

\* the c-th cell of row r: what lies between the (c-1)-th and the c-th ';'
CellOf(r, c) ==
    LET row == table[r]
        semis(n) == Cardinality({i \in 1..n : row[i] = ";"})
    IN SelectSeq([i \in 1..Len(row) |-> IF row[i] # ";" /\ semis(i) = c - 1 THEN row[i] ELSE ";"],
                 LAMBDA ch : ch # ";")

Bytes(cell) == Len(cell) + Cardinality({i \in 1..Len(cell) : cell[i] = "°"})

ColWidth(c) == Max({Bytes(CellOf(r, c)) : r \in 1..Len(table)})

Padded(r, c) ==
    CellOf(r, c) \o [i \in 1..(IF ColWidth(c) > Len(CellOf(r, c)) THEN ColWidth(c) - Len(CellOf(r, c)) ELSE 0) |-> " "]

RECURSIVE JoinedLine(_, _)
JoinedLine(r, c) ==
    IF c = CellsOf(r) THEN Padded(r, c) \o <<"\n">>
    ELSE Padded(r, c) \o <<" ">> \o JoinedLine(r, c + 1)

RECURSIVE SpacedLine(_, _)
SpacedLine(r, c) ==
    IF c > CellsOf(r) THEN <<"\n">>
    ELSE Padded(r, c) \o <<" ">> \o SpacedLine(r, c + 1)

RECURSIVE JoinedText(_)
JoinedText(r) == IF r > Len(table) THEN <<>> ELSE JoinedLine(r, 1) \o JoinedText(r + 1)

RECURSIVE SpacedText(_)
SpacedText(r) == IF r > Len(table) THEN <<>> ELSE SpacedLine(r, 1) \o SpacedText(r + 1)

\* C7 as stated: rows("a;bb", "ccc;d") is "a   bb\nccc d\n"; each line is the
\* cells of the row left-justified to the widest cell of their column,
\* joined by one space, with nothing but the newline after the last cell;
\* no rows give the empty string.
C7_JoinedBySpace ==
    rphase = "returned" /\ SameCellCount =>
        /\ table = <<R_a_bb, R_ccc_d>> =>
              rows_out.text = <<"a", " ", " ", " ", "b", "b", "\n", "c", "c", "c", " ", "d", "\n">>
        /\ rows_out.text = JoinedText(1)

\* C7 amended: rows("a;bb", "ccc;d") is "a   bb \nccc d  \n"; when all rows
\* have the same number of cells, each line is the cells of the row, every
\* cell (the last one too) padded with spaces to the greatest byte length
\* of its column and followed by one space, then the newline; no rows give
\* the empty string.
C7_SpaceAfterEveryCell ==
    rphase = "returned" /\ SameCellCount =>
        /\ ~rows_out.panic
        /\ table = <<R_a_bb, R_ccc_d>> =>
              rows_out.text = <<"a", " ", " ", " ", "b", "b", " ", "\n",
                                "c", "c", "c", " ", "d", " ", " ", "\n">>
        /\ table = <<>> => rows_out.text = <<>>
        /\ rows_out.text = SpacedText(1)

C7_Witness == rphase = "returned" /\ table = <<R_a_bb, R_ccc_d>>

\* C8: rows() panics, returning no string, for every non-empty input in
\* which some row has fewer or more cells than the first row; it never
\* returns a table with truncated or padded rows.
C8_MismatchPanics ==
    /\ rphase # "call" /\ table # <<>> /\ ~SameCellCount =>
          rphase = "panicked" /\ rows_out.panic /\ rows_out.text = <<>>
    /\ rphase = "returned" => table = <<>> \/ SameCellCount

C8_Witness ==
    /\ rphase = "panicked"
    /\ \A r \in 1..Len(table) : CellsOf(r) >= CellsOf(1)
    /\ \E r \in 1..Len(table) : CellsOf(r) > CellsOf(1)

----------------------------------------------------------------------------
(* The bar and the percentages composed from the values of a tick *)

InitBar == BarInit /\ CompIdle /\ RowsIdle /\ MainIdle /\ SizeIdle /\ NetIdle

NextBar == BarCompose \/ BarSample

SpecBar == InitBar /\ [][NextBar]_vars

Cells(n, glyph) == [i \in 1..n |-> glyph]

\* C9 as stated: for width 10, used 5, total 10 the bar is 5 full cells, no
\* partial cell and 5 spaces; whenever used/total*width is an integer
\* k < width the bar is k full cells and width-k spaces; the bar is always
\* exactly width cells wide.
C9_NoPartialCell ==
    bphase = "composed" =>
        /\ width = 10 /\ used = 5 /\ total = 10 =>
              bar_out.cells = Cells(5, "█") \o Cells(5, " ")
        /\ \A k \in 0..(width - 1) :
              total > 0 /\ used * width = k * total =>
                 bar_out.cells = Cells(k, "█") \o Cells(width - k, " ")
        /\ Len(bar_out.cells) = width

\* C9 amended: for width 10, used 5, total 10 the bar is 5 full cells, one
\* partial cell holding the thinnest slider glyph, and 4 spaces; whenever
\* used/total*width is an integer k < width the bar is k full cells, that
\* glyph and width-k-1 spaces; the bar is always exactly width cells wide.
C9_ThinnestSlider ==
    bphase = "composed" =>
        /\ width = 10 /\ used = 5 /\ total = 10 =>
              bar_out.cells = Cells(5, "█") \o <<"▏">> \o Cells(4, " ")
        /\ \A k \in 0..(width - 1) :
              total > 0 /\ used * width = k * total =>
                 bar_out.cells = Cells(k, "█") \o <<"▏">> \o Cells(width - k - 1, " ")
        /\ Len(bar_out.cells) = width

C9_Witness == bphase = "composed" /\ width = 10 /\ used = 5 /\ total = 10

Clamped(p) == IF p > 100 THEN 100 ELSE p

\* round(num/den*100), half away from zero, and 0 for a zero denominator
RoundedPercent(num, den) == IF den = 0 THEN 0 ELSE Clamped((200 * num + den) \div (2 * den))

\* C10 as stated: the percent of mem_usage, mem_bar, mhz and the power
\* ratio is round(used/total*100) clamped to [0,100], and is 0 whenever the
\* denominator is 0, so that a zero denominator never gives a non-zero
\* percent or the top colour tier.
C10_PercentOf ==
    bphase = "composed" =>
        /\ usage_out = RoundedPercent(used, total)
        /\ bar_out.percent = RoundedPercent(used, total)
        /\ mhz_out = RoundedPercent(used * used, total * total)
        /\ power_out = RoundedPercent(used, total)
        /\ total = 0 => bar_out.col # "red" /\ bar_out.usage.col # "red"

----------------------------------------------------------------------------
(* The program: start-up, info mode, the refresh loop *)

Init == MainInit /\ CompIdle /\ RowsIdle /\ BarIdle /\ SizeIdle /\ NetIdle

Next ==
    \/ Startup
    \/ InfoMode
    \/ LoopTop
    \/ Refresh
    \/ GpuHandle
    \/ Fans
    \/ Utilization
    \/ Memory
    \/ CoresAndClocks
    \/ Pcie
    \/ Tables
    \/ Emit

Spec == Init /\ [][Next]_vars

TickReads ==
    {"device_by_index", "memory_info"} \cup UtilizationReads \cup PcieReads \cup FanReads
        \cup ClockReads \cup {"max_freq"}

Frames == SelectSeq(stdout, LAMBDA w : w.kind = "frame")

\* C5 as stated: a failure of any read of a tick is replaced by 0, the tick
\* still emits its frame, and no such failure ends the loop.
C5_ReadFailureAbsorbed == failed \in TickReads => pc # "exit_err"

\* the lines of a frame, in order; NETW may be missing
FrameLines(netw) ==
    <<"CPU", "GPU", "RAM", "VRAM", "CORE", "FREQ", "TEMP", "CLCK", "FANS", "PCIE">>
        \o (IF netw THEN <<"NETW">> ELSE <<>>) \o <<"DISKS">>
        \o (IF "extra" \in args THEN <<"EXTRA">> ELSE <<>>)

\* C6: after start-up and without a failing read the program goes
\* Init -> (RefreshSample -> Compose -> Emit)*: lines are composed only
\* after the refresh of the tick, the buffer is printed once per tick and
\* complete, plain mode prints exactly one frame and ends, interactive mode
\* never ends on its own, info mode prints no frame.
C6_TickOrder ==
    /\ out # <<>> => refreshed
    /\ \A i \in 1..Len(Frames) : \E netw \in BOOLEAN : Frames[i].lines = FrameLines(netw)
    /\ Len(Frames) = ticks
    /\ pc \in {"gpu", "fans", "utilization", "memory", "cores", "pcie", "tables", "emit"} => refreshed
    /\ "info" \in args => Frames = <<>>
    /\ "info" \notin args /\ "plain" \in args =>
          /\ Len(Frames) <= 1
          /\ Len(Frames) = 1 <=> pc = "exit_ok"
    /\ "info" \notin args /\ "plain" \notin args => pc # "exit_ok"
    /\ failed = "none" => pc # "exit_err"

C6_Witness ==
    /\ args = {"extra"}
    /\ failed = "none"
    /\ Len(Frames) = 2
    /\ pc = "loop"

----------------------------------------------------------------------------
(* format_size over the byte counts of Sizes *)

InitSize == SizeInit /\ CompIdle /\ RowsIdle /\ BarIdle /\ MainIdle /\ NetIdle

NextSize == SizeCall \/ SizeFormat

SpecSize == InitSize /\ [][NextSize]_vars

Abs(x) == IF x < 0 THEN -x ELSE x

\* n is the integer nearest to bytes / unit, the even one of the two when
\* bytes lies exactly between two multiples of unit
C11_NearestEven(n, unit) ==
    \/ Abs(bytes - unit * n) < unit \div 2
    \/ Abs(bytes - unit * n) = unit \div 2 /\ n % 2 = 0

\* n is the integer nearest to bytes / unit, the larger one of the two when
\* bytes lies exactly between two multiples of unit
C11_NearestAway(n, unit) ==
    \/ Abs(bytes - unit * n) < unit \div 2
    \/ unit * n - bytes = unit \div 2

\* C11 (as amended): for bytes <= 2^30 format_size returns the decimal of
\* bytes and "B" below 1024, the integer nearest to bytes/1024 and "K" below
\* 2^20, the integer nearest to bytes/2^20 and "M" below 2^30, where an exact
\* half goes to the even neighbour (1536 -> "2K", 2560 -> "2K", 3584 -> "4K");
\* 1023 -> "1023B", 1024 -> "1K", 2^20 -> "1M" and 2^30 -> "1G".
C11_TiesToEven ==
    sphase = "formatted" /\ bytes <= gib =>
        /\ bytes < kib => size_out = Append(fmt_u64(bytes), "B")
        /\ bytes >= kib /\ bytes < mib =>
              \E n \in 1..kib : C11_NearestEven(n, kib) /\ size_out = Append(fmt_u64(n), "K")
        /\ bytes >= mib /\ bytes < gib =>
              \E n \in 1..kib : C11_NearestEven(n, mib) /\ size_out = Append(fmt_u64(n), "M")
        /\ bytes = 1023 => size_out = <<"1", "0", "2", "3", "B">>
        /\ bytes = 1024 => size_out = <<"1", "K">>
        /\ bytes = 1536 => size_out = <<"2", "K">>
        /\ bytes = 2560 => size_out = <<"2", "K">>
        /\ bytes = 3584 => size_out = <<"4", "K">>
        /\ bytes = mib => size_out = <<"1", "M">>
        /\ bytes = gib => size_out = <<"1", "G">>

\* format_size has returned "2K" for the exact half 2560 = 2.5 * 1024
C11_Witness ==
    sphase = "formatted" /\ bytes = 2560 /\ size_out = <<"2", "K">>

\* C11 (as stated): the K and M bands round an exact half away from zero
\* (2560 -> "3K").
C11_HalfAwayFromZero ==
    sphase = "formatted" /\ bytes <= gib =>
        /\ bytes < kib => size_out = Append(fmt_u64(bytes), "B")
        /\ bytes >= kib /\ bytes < mib =>
              \E n \in 1..kib : C11_NearestAway(n, kib) /\ size_out = Append(fmt_u64(n), "K")
        /\ bytes >= mib /\ bytes < gib =>
              \E n \in 1..kib : C11_NearestAway(n, mib) /\ size_out = Append(fmt_u64(n), "M")
        /\ bytes = 1023 => size_out = <<"1", "0", "2", "3", "B">>
        /\ bytes = 1024 => size_out = <<"1", "K">>
        /\ bytes = 1536 => size_out = <<"2", "K">>
        /\ bytes = 2560 => size_out = <<"3", "K">>
        /\ bytes = mib => size_out = <<"1", "M">>
        /\ bytes = gib => size_out = <<"1", "G">>

----------------------------------------------------------------------------
(* The NETW line over the frames of the refresh loop *)

InitNet == NetInit /\ CompIdle /\ RowsIdle /\ BarIdle /\ MainIdle /\ SizeIdle

NextNet == NetsRefresh \/ NetwLine

SpecNet == InitNet /\ [][NextNet]_vars

\* the interfaces that are not loopback, not veth, not a bridge, and have
\* moved traffic
C12_Passing ==
    {i \in 1..Len(nets) :
        /\ nets[i].name # N_lo
        /\ ~contains(nets[i].name, S_veth)
        /\ ~starts_with(nets[i].name, S_br_)
        /\ nets[i].total_received + nets[i].total_transmitted > 0}

\* C12: the NETW line of a frame names an interface that passes the filter
\* and no passing interface has strictly more total traffic than it; with no
\* passing interface the frame has no NETW line.
C12_DominantInterface ==
    nphase = "written" =>
        /\ C12_Passing = {} <=> netw_line = None
        /\ netw_line # None =>
              \E i \in C12_Passing :
                  /\ nets[i].name = netw_line[1]
                  /\ \A j \in C12_Passing :
                        nets[j].total_transmitted + nets[j].total_received
                            <= nets[i].total_transmitted + nets[i].total_received

====
